---- MODULE Spec2Model ----
(***************************************************************************)
(* A model of rubric_sampling/experiments/datasets.py: the construction of *)
(* a CodeOrgDataset (count map, rank map, Zipf map, vocabulary, encoded    *)
(* sequences), indexed access to it, and the module-level helpers          *)
(* build_rank_map_from_count_map and build_zipf_map.                       *)
(*                                                                         *)
(* Strings are sequences of one-character strings, so that str.split and   *)
(* ' '.join are computed and not assumed.  A Python dict whose iteration   *)
(* order the code reads (keys(), values()) is a sequence of [key, val]     *)
(* records in that order; a dict that is only looked up is a function.     *)
(* An Optional value is None (the empty sequence) or Some(v).              *)
(***************************************************************************)
EXTENDS Integers, Sequences, FiniteSets, TLC

VARIABLES
    args,           \* the constructor's parameters: split, vocab, max_seq_len, min_occ
    store,          \* the backing storage: files present, <split>.pickle, sources, counts
    pc,             \* the position of __init__
    error,          \* the exception that left __init__, or NoError
    raw_programs,   \* self.raw_programs
    raw_labels,     \* self.raw_labels
    vocab,          \* self.vocab
    w2i,            \* self.w2i
    i2w,            \* self.i2w
    vocab_size,     \* self.vocab_size
    sequences,      \* self.sequences
    lengths,        \* self.lengths
    zipf_map,       \* self.zipf_map
    domain,         \* build_count_map: the ids of sources.keys() not yet visited
    count_map,      \* build_count_map's count_map, then __init__'s
    argsorted,      \* build_rank_map_from_count_map: np.argsort(counts)
    rank_map,       \* __init__'s rank_map
    seqs,           \* process_programs: seqs
    seq_lengths,    \* process_programs: lengths
    ret             \* the outcome of the last __getitem__ call

vars == <<args, store, pc, error, raw_programs, raw_labels, vocab, w2i, i2w,
          vocab_size, sequences, lengths, zipf_map, domain, count_map,
          argsorted, rank_map, seqs, seq_lengths, ret>>

(***************************************************************************)
(* Bounds of the model.                                                    *)
(***************************************************************************)
\* the longest program string of the encoding specification, in characters
MaxProgLen == 3
\* the largest max_seq_len
MaxSeqLen == 2
\* the most programs handed to process_programs in the encoding specification
MaxBatch == 1
\* the most programs of a split in the construction specification
MaxData == 2
\* the most ids of sources in the counting specification
MaxIds == 2
\* the largest occurrence count of one id
MaxCount == 3
\* the most freely counted programs of a count map in the ranking specification
MaxFree == 3

(***************************************************************************)
(* Values.                                                                 *)
(***************************************************************************)
None == <<>>
Some(v) == <<v>>

Min(a, b) == IF a <= b THEN a ELSE b
Max(a, b) == IF a >= b THEN a ELSE b

\* the characters of the program strings of the model
Char == {"a", "b", " "}

\* utils.py: the reserved tokens
PAD_TOKEN == <<"<pad>">>
UNK_TOKEN == <<"<unk>">>
SOS_TOKEN == <<"<sos>">>
EOS_TOKEN == <<"<eos>">>

\* all strings of at most n characters
RECURSIVE StringsUpTo(_)
StringsUpTo(n) ==
    IF n = 0 THEN {<<>>}
    ELSE LET shorter == StringsUpTo(n - 1)
         IN shorter \cup {Append(s, c) : s \in {t \in shorter : Len(t) = n - 1}, c \in Char}

\* all sequences of at most n elements of S
RECURSIVE SeqsUpTo(_, _)
SeqsUpTo(S, n) ==
    IF n = 0 THEN {<<>>}
    ELSE LET shorter == SeqsUpTo(S, n - 1)
         IN shorter \cup {Append(s, x) : s \in {t \in shorter : Len(t) = n - 1}, x \in S}

\* every ordering of the finite set S, as a sequence
RECURSIVE PermSeqs(_)
PermSeqs(S) ==
    IF S = {} THEN {<<>>}
    ELSE UNION {{<<x>> \o p : p \in PermSeqs(S \ {x})} : x \in S}

Range(s) == {s[j] : j \in DOMAIN s}

\* str.split(): the maximal runs of non-whitespace characters, in order
RECURSIVE SplitFrom(_, _, _)
SplitFrom(s, cur, acc) ==
    IF s = <<>> THEN (IF cur = <<>> THEN acc ELSE Append(acc, cur))
    ELSE IF Head(s) = " "
         THEN SplitFrom(Tail(s), <<>>, IF cur = <<>> THEN acc ELSE Append(acc, cur))
         ELSE SplitFrom(Tail(s), Append(cur, Head(s)), acc)

split(s) == SplitFrom(s, <<>>, <<>>)

\* ' '.join(tokens)
RECURSIVE join(_)
join(tokens) ==
    IF tokens = <<>> THEN <<>>
    ELSE IF Len(tokens) = 1 THEN tokens[1]
    ELSE tokens[1] \o <<" ">> \o join(Tail(tokens))

\* an exception, by its type and the line that raises it
Exception(type, line) == [type |-> type, line |-> line]
NoError == Exception("none", 0)

(***************************************************************************)
(* CodeOrgDataset.process_programs                                         *)
(***************************************************************************)
\* tokens[:k], a Python slice: a negative k counts from the end
SliceTo(tokens, k) ==
    SubSeq(tokens, 1, IF k >= 0 THEN Min(k, Len(tokens)) ELSE Max(Len(tokens) + k, 0))

\* [x] * k, a Python list repetition: empty when k <= 0
Repeat(x, k) == [j \in 1..k |-> x]

\* line 133
Wrap(tokens, max_seq_len) == <<SOS_TOKEN>> \o SliceTo(tokens, max_seq_len) \o <<EOS_TOKEN>>

\* line 136
PadShort(tokens, max_seq_len) == tokens \o Repeat(PAD_TOKEN, max_seq_len + 1 - Len(tokens))
Pad(tokens, max_seq_len) == tokens \o Repeat(PAD_TOKEN, max_seq_len + 2 - Len(tokens))

\* line 137: self.w2i.get(token, self.w2i[UNK_TOKEN])
LookupNoUnk(w, token) == IF token \in DOMAIN w THEN w[token] ELSE w[PAD_TOKEN]
Lookup(w, token) == IF token \in DOMAIN w THEN w[token] ELSE w[UNK_TOKEN]

\* lines 131-137: one program's sequence and length
EncodeProgram(program, w, max_seq_len) ==
    LET tokens == Wrap(split(program), max_seq_len)
        padded == Pad(tokens, max_seq_len)
    IN [seq |-> [j \in DOMAIN padded |-> Lookup(w, padded[j])], length |-> Len(tokens)]

\* lines 130-140: one turn of the loop
ProcessProgramsStep ==
    /\ pc = "process_programs"
    /\ Len(seqs) < Len(raw_programs)
    /\ LET enc == EncodeProgram(raw_programs[Len(seqs) + 1], w2i, args.max_seq_len)
       IN /\ seqs' = Append(seqs, enc.seq)
          /\ seq_lengths' = Append(seq_lengths, enc.length)
    /\ UNCHANGED <<args, store, pc, error, raw_programs, raw_labels, vocab, w2i, i2w,
                   vocab_size, sequences, lengths, zipf_map, domain, count_map,
                   argsorted, rank_map, ret>>

\* lines 142 and 95: the return, and __init__'s assignment
ProcessProgramsReturn ==
    /\ pc = "process_programs"
    /\ Len(seqs) = Len(raw_programs)
    /\ sequences' = seqs
    /\ lengths' = seq_lengths
    /\ pc' = "process_labels"
    /\ UNCHANGED <<args, store, error, raw_programs, raw_labels, vocab, w2i, i2w,
                   vocab_size, zipf_map, domain, count_map, argsorted, rank_map,
                   seqs, seq_lengths, ret>>

(***************************************************************************)
(* Python dicts whose iteration order is read.                             *)
(***************************************************************************)
Keys(d) == [j \in DOMAIN d |-> d[j].key]
Values(d) == [j \in DOMAIN d |-> d[j].val]
HasKey(d, k) == \E j \in DOMAIN d : d[j].key = k
Get(d, k) == d[CHOOSE j \in DOMAIN d : d[j].key = k].val

\* the orders in which a dict of these items may iterate: CPython 2 orders a
\* dict by the slots its keys hash to, which depends on the size and the
\* history of the table, not on the keys' values
DictOrders(d) == {[j \in DOMAIN d |-> d[p[j]]] : p \in PermSeqs(DOMAIN d)}

(***************************************************************************)
(* utils.py, which this file imports: removeColors, flatten_ast, and the   *)
(* ZIPF_CLASS table.  An AST is the sequence of its leaves, each a token   *)
(* and a colour.                                                           *)
(***************************************************************************)
removeColors(ast) == [j \in DOMAIN ast |-> [token |-> ast[j].token, color |-> "none"]]
flatten_ast(ast) == [j \in DOMAIN ast |-> ast[j].token]
ZIPF_CLASS == [head |-> 0, body |-> 1, tail |-> 2]

(***************************************************************************)
(* CodeOrgDataset.build_count_map                                          *)
(***************************************************************************)
\* lines 158-161: the program string of an AST
Canonical(ast) == join(flatten_ast(removeColors(ast)))

\* line 162: count_map[program] += c, on a defaultdict(lambda: 0)
Overwrite(d, k, c) ==
    IF HasKey(d, k)
    THEN [j \in DOMAIN d |-> IF d[j].key = k THEN [key |-> k, val |-> c] ELSE d[j]]
    ELSE Append(d, [key |-> k, val |-> 0 + c])
Accumulate(d, k, c) ==
    IF HasKey(d, k)
    THEN [j \in DOMAIN d |-> IF d[j].key = k THEN [key |-> k, val |-> d[j].val + c] ELSE d[j]]
    ELSE Append(d, [key |-> k, val |-> 0 + c])

\* lines 149-155: the two files are opened, the ids are listed
BuildCountMapOpen ==
    /\ pc = "build_count_map"
    /\ IF "sources" \notin store.files
       THEN /\ pc' = "failed"
            /\ error' = Exception("IOError", 149)
            /\ UNCHANGED <<domain, count_map>>
       ELSE IF "countMap" \notin store.files
       THEN /\ pc' = "failed"
            /\ error' = Exception("IOError", 151)
            /\ UNCHANGED <<domain, count_map>>
       ELSE /\ pc' = "count_loop"
            /\ domain' = Keys(store.sources)
            /\ count_map' = <<>>
            /\ UNCHANGED error
    /\ UNCHANGED <<args, store, raw_programs, raw_labels, vocab, w2i, i2w, vocab_size,
                   sequences, lengths, zipf_map, argsorted, rank_map, seqs,
                   seq_lengths, ret>>

\* lines 157-162: one turn of the loop
BuildCountMapStep ==
    /\ pc = "count_loop"
    /\ domain # <<>>
    /\ LET i == Head(domain)
           program == Canonical(Get(store.sources, i))
       IN count_map' = Accumulate(count_map, program, store.counts[i])
    /\ domain' = Tail(domain)
    /\ UNCHANGED <<args, store, pc, error, raw_programs, raw_labels, vocab, w2i, i2w,
                   vocab_size, sequences, lengths, zipf_map, argsorted, rank_map,
                   seqs, seq_lengths, ret>>

\* lines 164 and 85: dict(count_map), a new dict with an order of its own
BuildCountMapReturn ==
    /\ pc = "count_loop"
    /\ domain = <<>>
    /\ count_map' \in DictOrders(count_map)
    /\ pc' = "rank_map"
    /\ UNCHANGED <<args, store, error, raw_programs, raw_labels, vocab, w2i, i2w,
                   vocab_size, sequences, lengths, zipf_map, domain, argsorted,
                   rank_map, seqs, seq_lengths, ret>>

(***************************************************************************)
(* build_rank_map_from_count_map                                           *)
(***************************************************************************)
\* line 185, np.argsort(counts): the positions of counts in ascending order of
\* count.  The default sort (quicksort) promises no order among equal counts,
\* so every ascending order is an outcome.
RECURSIVE ArgsortFrom(_, _)
ArgsortFrom(counts, left) ==
    IF left = {} THEN {<<>>}
    ELSE LET m == CHOOSE c \in {counts[j] : j \in left} : \A j \in left : c <= counts[j]
             least == {j \in left : counts[j] = m}
         IN {a \o b : a \in PermSeqs(least), b \in ArgsortFrom(counts, left \ least)}

Argsort(counts) == ArgsortFrom(counts, DOMAIN counts)

\* line 185, [::-1]
NotReversed(s) == s
Reversed(s) == [j \in DOMAIN s |-> s[Len(s) + 1 - j]]

\* lines 185-188: programs[ranks] zipped with arange(len(programs)), in the
\* order the pairs are handed to dict()
RankItemsTiesKept(d, sorted) ==
    LET r == Reversed(sorted)
        programs == Keys(d)
        tied(j) == {a \in DOMAIN r : d[r[a]].val = d[r[j]].val}
        lo(j) == CHOOSE a \in tied(j) : \A b \in tied(j) : a <= b
        hi(j) == CHOOSE a \in tied(j) : \A b \in tied(j) : a >= b
    IN [j \in DOMAIN r |-> [key |-> programs[r[lo(j) + hi(j) - j]], val |-> j - 1]]
RankItems(d, sorted) ==
    LET ranks == Reversed(sorted)
        programs == Keys(d)
    IN [j \in DOMAIN ranks |-> [key |-> programs[ranks[j]], val |-> j - 1]]

\* the same items, listed in the order of the keys of d
AlignedWith(items, d) == [j \in DOMAIN d |-> [key |-> d[j].key, val |-> Get(items, d[j].key)]]

\* line 188: the orders the new dict may iterate in.  All of them for a small
\* dict; for a larger one the order of insertion and the order of count_map.
RankMapOrders(items, d) ==
    IF Len(items) <= MaxFree THEN DictOrders(items) ELSE {items, AlignedWith(items, d)}

\* lines 86, 181-188
BuildRankMap ==
    /\ pc = "rank_map"
    /\ \E sorted \in Argsort(Values(count_map)) :
          /\ argsorted' = sorted
          /\ rank_map' \in RankMapOrders(RankItems(count_map, sorted), count_map)
    /\ pc' = "zipf_map"
    /\ UNCHANGED <<args, store, error, raw_programs, raw_labels, vocab, w2i, i2w,
                   vocab_size, sequences, lengths, zipf_map, domain, count_map,
                   seqs, seq_lengths, ret>>

(***************************************************************************)
(* build_zipf_map                                                          *)
(***************************************************************************)
\* line 199
TailCount == 3
\* line 201
HeadRank == 20

\* lines 197-201: the class of the position whose count and rank are given
ZipfClass(count, rank) ==
    IF rank <= HeadRank THEN ZIPF_CLASS.head
    ELSE IF count < TailCount THEN ZIPF_CLASS.tail
    ELSE ZIPF_CLASS.body

\* lines 192-203: the three arrays are read in the orders of the two dicts and
\* combined position by position
build_zipf_map(cm, rm) ==
    LET programs == Keys(cm)
        counts == Values(cm)
        ranks == Values(rm)
        zipf_classes == [j \in DOMAIN programs |-> ZipfClass(counts[j], ranks[j])]
    IN [p \in Range(programs) |-> zipf_classes[CHOOSE j \in DOMAIN programs : programs[j] = p]]

\* line 87
BuildZipfMap ==
    /\ pc = "zipf_map"
    /\ zipf_map' = build_zipf_map(count_map, rank_map)
    /\ pc' = "vocab"
    /\ UNCHANGED <<args, store, error, raw_programs, raw_labels, vocab, w2i, i2w,
                   vocab_size, sequences, lengths, domain, count_map, argsorted,
                   rank_map, seqs, seq_lengths, ret>>

(***************************************************************************)
(* CodeOrgDataset.create_vocab                                             *)
(***************************************************************************)
\* lines 101-102
AnySplit(s) == TRUE
TrainingFile(s) == s = "train"

\* lines 68-87: the attributes __init__ has set when it calls create_vocab
SelfAttributes ==
    {"problem_id", "split", "vocab", "max_seq_len", "min_occ", "data_dir",
     "raw_programs", "raw_labels", "zipf_map"}

SelfAttribute(name) ==
    CASE name = "split" -> args.split
      [] name = "vocab" -> vocab
      [] name = "max_seq_len" -> args.max_seq_len
      [] name = "min_occ" -> args.min_occ
      [] name = "raw_programs" -> raw_programs
      [] name = "raw_labels" -> raw_labels
      [] name = "zipf_map" -> zipf_map

\* lines 107-110
SpecialTokens == <<PAD_TOKEN, UNK_TOKEN, SOS_TOKEN, EOS_TOKEN>>

\* lines 109-110 and 118-119: i2w[len(w2i)] = w; w2i[w] = len(w2i)
AddToken(v, w) ==
    LET n == Cardinality(DOMAIN v.w2i)
    IN [w2i |-> (w :> n) @@ v.w2i, i2w |-> (n :> w) @@ v.i2w]

RECURSIVE AddTokens(_, _)
AddTokens(v, tokens) ==
    IF tokens = <<>> THEN v ELSE AddTokens(AddToken(v, Head(tokens)), Tail(tokens))

\* line 114: w2c.update(tokens), on an OrderedCounter
RECURSIVE UpdateCounter(_, _)
UpdateCounter(w2c, tokens) ==
    IF tokens = <<>> THEN w2c
    ELSE UpdateCounter(Accumulate(w2c, Head(tokens), 1), Tail(tokens))

\* lines 112-114
RECURSIVE CountTokens(_, _)
CountTokens(w2c, data) ==
    IF data = <<>> THEN w2c
    ELSE CountTokens(UpdateCounter(w2c, split(Head(data))), Tail(data))

\* lines 116-119
RECURSIVE AddFrequent(_, _, _)
AddFrequent(v, items, min_occ) ==
    IF items = <<>> THEN v
    ELSE AddFrequent(IF Head(items).val > min_occ THEN AddToken(v, Head(items).key) ELSE v,
                     Tail(items), min_occ)

\* lines 104-119: the two maps create_vocab builds from the programs it reads
create_vocab_maps(data, min_occ) ==
    AddFrequent(AddTokens([w2i |-> <<>>, i2w |-> <<>>], SpecialTokens),
                CountTokens(<<>>, data), min_occ)

\* lines 89-90 and 100-124.  create_vocab reads self.data, which nothing
\* sets; it has no return statement, so line 90 would assign None over the
\* dict that line 124 stored.
InitVocab ==
    /\ pc = "vocab"
    /\ IF vocab # None
       THEN /\ pc' = "unpack_vocab"
            /\ UNCHANGED <<vocab, error>>
       ELSE IF ~TrainingFile(args.split)
       THEN /\ pc' = "failed"
            /\ error' = Exception("AssertionError", 101)
            /\ UNCHANGED vocab
       ELSE IF "data" \notin SelfAttributes
       THEN /\ pc' = "failed"
            /\ error' = Exception("AttributeError", 112)
            /\ UNCHANGED vocab
       ELSE LET built == create_vocab_maps(SelfAttribute("data"), args.min_occ)
            IN IF Cardinality(DOMAIN built.w2i) # Cardinality(DOMAIN built.i2w)
               THEN /\ pc' = "failed"
                    /\ error' = Exception("AssertionError", 121)
                    /\ UNCHANGED vocab
               ELSE /\ pc' = "unpack_vocab"
                    /\ vocab' = None
                    /\ UNCHANGED error
    /\ UNCHANGED <<args, store, raw_programs, raw_labels, w2i, i2w, vocab_size,
                   sequences, lengths, zipf_map, domain, count_map, argsorted,
                   rank_map, seqs, seq_lengths, ret>>

(***************************************************************************)
(* CodeOrgDataset.__init__                                                 *)
(***************************************************************************)
\* lines 76-83
LoadRawData ==
    /\ pc = "load"
    /\ IF "split" \notin store.files
       THEN /\ pc' = "failed"
            /\ error' = Exception("IOError", 76)
            /\ UNCHANGED <<raw_programs, raw_labels>>
       ELSE IF "programs" \notin DOMAIN store.raw_data
       THEN /\ pc' = "failed"
            /\ error' = Exception("AssertionError", 78)
            /\ UNCHANGED <<raw_programs, raw_labels>>
       ELSE /\ pc' = "build_count_map"
            /\ raw_programs' = store.raw_data.programs
            /\ raw_labels' = IF "labels" \in DOMAIN store.raw_data
                             THEN Some(store.raw_data.labels) ELSE None
            /\ UNCHANGED error
    /\ UNCHANGED <<args, store, vocab, w2i, i2w, vocab_size, sequences, lengths,
                   zipf_map, domain, count_map, argsorted, rank_map, seqs,
                   seq_lengths, ret>>

\* lines 92-93
UnpackVocab ==
    /\ pc = "unpack_vocab"
    /\ IF vocab = None
       THEN /\ pc' = "failed"
            /\ error' = Exception("TypeError", 92)
            /\ UNCHANGED <<w2i, i2w, vocab_size>>
       ELSE /\ pc' = "process_programs"
            /\ w2i' = vocab[1].w2i
            /\ i2w' = vocab[1].i2w
            /\ vocab_size' = Cardinality(DOMAIN vocab[1].w2i)
            /\ UNCHANGED error
    /\ UNCHANGED <<args, store, raw_programs, raw_labels, vocab, sequences, lengths,
                   zipf_map, domain, count_map, argsorted, rank_map, seqs,
                   seq_lengths, ret>>

\* lines 97-98 and 144-145
ProcessLabels ==
    /\ pc = "process_labels"
    /\ IF raw_labels # None
       THEN /\ pc' = "failed"
            /\ error' = Exception("NotImplementedError", 145)
       ELSE /\ pc' = "done"
            /\ UNCHANGED error
    /\ UNCHANGED <<args, store, raw_programs, raw_labels, vocab, w2i, i2w, vocab_size,
                   sequences, lengths, zipf_map, domain, count_map, argsorted,
                   rank_map, seqs, seq_lengths, ret>>

(***************************************************************************)
(* CodeOrgDataset.__len__ and __getitem__                                  *)
(***************************************************************************)
\* line 167
size == Len(sequences)

\* a Python list of n elements accepts the indices -n .. n-1
NonNegativeIndex(index, n) == 0 <= index /\ index < n
ListIndex(index, n) == -n <= index /\ index < n

\* the element a valid index addresses, counted from 1
Position(index, n) == IF index >= 0 THEN index + 1 ELSE n + index + 1

\* lines 170-178: the outcome of self[index]
getitem(index) ==
    IF ~ListIndex(index, Len(sequences))
    THEN [called |-> TRUE, index |-> index, error |-> Exception("IndexError", 170),
          value |-> None]
    ELSE LET k == Position(index, Len(sequences))
         IN IF raw_programs[k] \notin DOMAIN zipf_map
            THEN [called |-> TRUE, index |-> index, error |-> Exception("KeyError", 172),
                  value |-> None]
            ELSE IF raw_labels = None
            THEN [called |-> TRUE, index |-> index, error |-> NoError,
                  value |-> Some([seq |-> sequences[k], length |-> lengths[k],
                                  label |-> None, zipf |-> zipf_map[raw_programs[k]]])]
            ELSE [called |-> TRUE, index |-> index,
                  error |-> Exception("AttributeError", 177), value |-> None]

GetItem ==
    /\ pc = "done"
    /\ \E index \in -(MaxData + 1) .. (MaxData + 1) : ret' = getitem(index)
    /\ UNCHANGED <<args, store, pc, error, raw_programs, raw_labels, vocab, w2i, i2w,
                   vocab_size, sequences, lengths, zipf_map, domain, count_map,
                   argsorted, rank_map, seqs, seq_lengths>>

(***************************************************************************)
(* The encoding specification: process_programs on every batch of at most  *)
(* MaxBatch program strings of at most MaxProgLen characters, under every  *)
(* vocabulary of SampleVocabularies and every max_seq_len in 0..MaxSeqLen. *)
(***************************************************************************)
\* a token -> index map: the reserved tokens, then the given tokens, in order
VocabularyOf(tokens) ==
    LET all == <<PAD_TOKEN, UNK_TOKEN, SOS_TOKEN, EOS_TOKEN>> \o tokens
    IN [t \in Range(all) |-> (CHOOSE j \in DOMAIN all : all[j] = t) - 1]

InverseOf(w) == [j \in {w[t] : t \in DOMAIN w} |-> CHOOSE t \in DOMAIN w : w[t] = j]

SampleVocabularies ==
    {VocabularyOf(<<>>), VocabularyOf(<< <<"a">> >>), VocabularyOf(<< <<"b">>, <<"a">> >>)}

NoRet == [called |-> FALSE]

AllFiles == {"split", "sources", "countMap"}

\* line 65
DefaultMinOcc == 3

Vocabulary(w) == [w2i |-> w, i2w |-> InverseOf(w)]

InitEncode ==
    /\ \E w \in SampleVocabularies, m \in 0..MaxSeqLen :
          args = [split |-> "val", vocab |-> Some(Vocabulary(w)), max_seq_len |-> m,
                  min_occ |-> DefaultMinOcc]
    /\ raw_programs \in SeqsUpTo(StringsUpTo(MaxProgLen), MaxBatch)
    /\ store = [files |-> AllFiles, raw_data |-> [programs |-> raw_programs],
                sources |-> <<>>, counts |-> <<>>]
    /\ vocab = args.vocab
    /\ w2i = vocab[1].w2i
    /\ i2w = vocab[1].i2w
    /\ vocab_size = Cardinality(DOMAIN w2i)
    /\ pc = "process_programs"
    /\ error = NoError
    /\ raw_labels = None
    /\ sequences = <<>> /\ lengths = <<>> /\ zipf_map = <<>>
    /\ domain = <<>> /\ count_map = <<>> /\ argsorted = <<>> /\ rank_map = <<>>
    /\ seqs = <<>> /\ seq_lengths = <<>>
    /\ ret = NoRet

NextEncode == ProcessProgramsStep \/ ProcessProgramsReturn

SpecEncode == InitEncode /\ [][NextEncode]_vars

(***************************************************************************)
(* The construction specification: __init__ from its first line, then      *)
(* __getitem__ on the constructed dataset.                                 *)
(***************************************************************************)
Leaf(token, color) == [token |-> token, color |-> color]

\* the ASTs of the model
SampleAsts ==
    {<<Leaf(<<"a">>, "none")>>, <<Leaf(<<"a">>, "red")>>,
     <<Leaf(<<"a">>, "none"), Leaf(<<"b">>, "red")>>,
     <<Leaf(<<"a">>, "blue"), Leaf(<<"b">>, "none")>>}

\* sources and counts of the construction specification
SampleSources ==
    {[sources |-> <<>>, counts |-> <<>>],
     [sources |-> <<[key |-> 1, val |-> <<Leaf(<<"a">>, "red"), Leaf(<<"b">>, "none")>>]>>,
      counts |-> <<2>>],
     [sources |-> <<[key |-> 2, val |-> <<Leaf(<<"a">>, "none")>>],
                    [key |-> 1, val |-> <<Leaf(<<"a">>, "none"), Leaf(<<"b">>, "red")>>]>>,
      counts |-> <<4, 1>>]}

\* the program strings of a split in the construction specification
SamplePrograms == {<<"a">>, <<"a", " ", "b">>, <<"b", " ", " ", "a">>}

\* the contents of <split>.pickle
RawDatas ==
    {[labels |-> <<>>]}
    \cup {[programs |-> p] : p \in SeqsUpTo(SamplePrograms, MaxData)}
    \cup {[programs |-> p, labels |-> [j \in DOMAIN p |-> 1]] :
              p \in SeqsUpTo(SamplePrograms, MaxData)}

\* every file is there, or one is missing
FileSets == {AllFiles} \cup {AllFiles \ {f} : f \in AllFiles}

Splits == {"train", "val", "test", "all"}

Init ==
    /\ args \in [split : Splits,
                 vocab : {None, Some(Vocabulary(VocabularyOf(<< <<"a">> >>)))},
                 max_seq_len : 0..MaxSeqLen, min_occ : {DefaultMinOcc}]
    /\ \E f \in FileSets, r \in RawDatas, s \in SampleSources :
          store = [files |-> f, raw_data |-> r, sources |-> s.sources, counts |-> s.counts]
    /\ vocab = args.vocab
    /\ pc = "load"
    /\ error = NoError
    /\ raw_programs = <<>> /\ raw_labels = None
    /\ w2i = <<>> /\ i2w = <<>> /\ vocab_size = 0
    /\ sequences = <<>> /\ lengths = <<>> /\ zipf_map = <<>>
    /\ domain = <<>> /\ count_map = <<>> /\ argsorted = <<>> /\ rank_map = <<>>
    /\ seqs = <<>> /\ seq_lengths = <<>>
    /\ ret = NoRet

Next ==
    \/ LoadRawData
    \/ BuildCountMapOpen
    \/ BuildCountMapStep
    \/ BuildCountMapReturn
    \/ BuildRankMap
    \/ BuildZipfMap
    \/ InitVocab
    \/ UnpackVocab
    \/ ProcessProgramsStep
    \/ ProcessProgramsReturn
    \/ ProcessLabels
    \/ GetItem

Spec == Init /\ [][Next]_vars

(***************************************************************************)
(* The counting specification: build_count_map on every sources dict of at *)
(* most MaxIds ids, in every order of its keys, with every count in        *)
(* 1..MaxCount.                                                            *)
(***************************************************************************)
SourcesOf(n) ==
    {[j \in 1..n |-> [key |-> order[j], val |-> asts[order[j]]]] :
        order \in PermSeqs(1..n), asts \in [1..n -> SampleAsts]}

InitCount ==
    /\ args = [split |-> "train", vocab |-> None, max_seq_len |-> 0, min_occ |-> DefaultMinOcc]
    /\ \E n \in 0..MaxIds : \E s \in SourcesOf(n), c \in [1..n -> 1..MaxCount] :
          store = [files |-> AllFiles, raw_data |-> [programs |-> <<>>],
                   sources |-> s, counts |-> c]
    /\ vocab = None
    /\ pc = "build_count_map"
    /\ error = NoError
    /\ raw_programs = <<>> /\ raw_labels = None
    /\ w2i = <<>> /\ i2w = <<>> /\ vocab_size = 0
    /\ sequences = <<>> /\ lengths = <<>> /\ zipf_map = <<>>
    /\ domain = <<>> /\ count_map = <<>> /\ argsorted = <<>> /\ rank_map = <<>>
    /\ seqs = <<>> /\ seq_lengths = <<>>
    /\ ret = NoRet

NextCount == BuildCountMapOpen \/ BuildCountMapStep \/ BuildCountMapReturn

SpecCount == InitCount /\ [][NextCount]_vars

(***************************************************************************)
(* The ranking specification: build_rank_map_from_count_map and            *)
(* build_zipf_map on count maps of at most MaxFree programs with every     *)
(* count in 1..MaxCount, alone or listed before HeadRank further programs  *)
(* of larger, distinct counts.                                             *)
(***************************************************************************)
\* the program string of the p-th key: one token of p characters
ProgramName(p) == [j \in 1..p |-> "a"]

CountMapOf(free, bulk) ==
    [p \in 1..(Len(free) + bulk) |->
        [key |-> ProgramName(p), val |-> IF p <= Len(free) THEN free[p] ELSE MaxCount + p]]

InitRank ==
    /\ args = [split |-> "train", vocab |-> None, max_seq_len |-> 0, min_occ |-> DefaultMinOcc]
    /\ store = [files |-> AllFiles, raw_data |-> [programs |-> <<>>],
                sources |-> <<>>, counts |-> <<>>]
    /\ \E free \in SeqsUpTo(1..MaxCount, MaxFree), bulk \in {0, HeadRank} :
          count_map = CountMapOf(free, bulk)
    /\ vocab = None
    /\ pc = "rank_map"
    /\ error = NoError
    /\ raw_programs = <<>> /\ raw_labels = None
    /\ w2i = <<>> /\ i2w = <<>> /\ vocab_size = 0
    /\ sequences = <<>> /\ lengths = <<>> /\ zipf_map = <<>>
    /\ domain = <<>> /\ argsorted = <<>> /\ rank_map = <<>>
    /\ seqs = <<>> /\ seq_lengths = <<>>
    /\ ret = NoRet

NextRank == BuildRankMap \/ BuildZipfMap

SpecRank == InitRank /\ [][NextRank]_vars

(***************************************************************************)
(* Properties.                                                             *)
(***************************************************************************)
\* the index the vocabulary w gives token t: its own, or UNK's when it has none
IndexOf(w, t) == IF t \in DOMAIN w THEN w[t] ELSE w[UNK_TOKEN]

\* the token expected at position j (from 1) of the encoding of tokens
ExpectedToken(tokens, max_seq_len, j) ==
    LET m == Min(Len(tokens), max_seq_len)
    IN IF j = 1 THEN SOS_TOKEN
       ELSE IF j <= m + 1 THEN tokens[j - 1]
       ELSE IF j = m + 2 THEN EOS_TOKEN
       ELSE PAD_TOKEN

\* C1: every sequence process_programs has produced is, position by position,
\* the indices of SOS, the first min(n, max_seq_len) whitespace tokens of its
\* program, EOS, and PAD from the true length on; a token of the vocabulary
\* has its own index and any other token has UNK's.
C1_EncodedPositions ==
    \A k \in DOMAIN seqs :
        LET tokens == split(raw_programs[k])
        IN /\ DOMAIN seqs[k] = 1..(args.max_seq_len + 2)
           /\ \A j \in 1..(args.max_seq_len + 2) :
                 seqs[k][j] = IndexOf(w2i, ExpectedToken(tokens, args.max_seq_len, j))

\* a program cut to max_seq_len tokens, one of the kept tokens unknown to the
\* vocabulary, has been encoded and returned
C1_Witness ==
    /\ pc = "process_labels"
    /\ \E k \in DOMAIN sequences :
          LET tokens == split(raw_programs[k])
          IN /\ args.max_seq_len >= 1
             /\ Len(tokens) > args.max_seq_len
             /\ tokens[1] \notin DOMAIN w2i
             /\ sequences[k][2] = w2i[UNK_TOKEN]
             /\ sequences[k][args.max_seq_len + 2] = w2i[EOS_TOKEN]

\* C2: every encoded sequence has exactly max_seq_len + 2 elements, and the
\* recorded length is min(number of whitespace tokens, max_seq_len) + 2, which
\* lies in 2 .. max_seq_len + 2; the dataset holds the sequences so produced.
C2_SequenceLengths ==
    /\ \A k \in DOMAIN seqs :
          /\ Len(seqs[k]) = args.max_seq_len + 2
          /\ seq_lengths[k] = Min(Len(split(raw_programs[k])), args.max_seq_len) + 2
          /\ seq_lengths[k] \in 2..(args.max_seq_len + 2)
    /\ Len(seq_lengths) = Len(seqs)
    /\ pc = "process_labels" =>
          /\ sequences = seqs /\ lengths = seq_lengths
          /\ Len(sequences) = Len(raw_programs)

\* a program of fewer than max_seq_len tokens has been encoded, padded and returned
C2_Witness ==
    /\ pc = "process_labels"
    /\ \E k \in DOMAIN sequences :
          /\ Len(split(raw_programs[k])) < args.max_seq_len
          /\ lengths[k] < Len(sequences[k])
          /\ sequences[k][Len(sequences[k])] = w2i[PAD_TOKEN]

\* C3: every program's class is decided by its own count and its own rank:
\* HEAD when its rank is at most 20, else TAIL when its count is below 3,
\* else BODY.
C3_ClassOfOwnCountAndRank ==
    pc = "vocab" =>
        \A j \in DOMAIN count_map :
            LET p == count_map[j].key
                rank == Get(rank_map, p)
                count == Get(count_map, p)
            IN zipf_map[p] = IF rank <= HeadRank THEN ZIPF_CLASS.head
                             ELSE IF count < TailCount THEN ZIPF_CLASS.tail
                             ELSE ZIPF_CLASS.body

RankMapBuilt == pc \in {"zipf_map", "vocab"}

\* C4: the rank map has the keys of the count map, its values are a
\* permutation of 0..n-1, a program of larger count has the smaller rank, and
\* a program of strictly largest count has rank 0.
C4_RankMapOrdersByCount ==
    RankMapBuilt =>
        LET n == Len(count_map)
        IN /\ Len(rank_map) = n
           /\ Range(Keys(rank_map)) = Range(Keys(count_map))
           /\ Range(Values(rank_map)) = 0..(n - 1)
           /\ \A i, j \in DOMAIN count_map :
                 count_map[i].val > count_map[j].val =>
                     Get(rank_map, count_map[i].key) < Get(rank_map, count_map[j].key)
           /\ \A i \in DOMAIN count_map :
                 (\A j \in DOMAIN count_map \ {i} : count_map[i].val > count_map[j].val)
                     => Get(rank_map, count_map[i].key) = 0

\* three programs, two of them of equal count and one of larger count, are ranked
C4_Witness ==
    /\ pc = "zipf_map"
    /\ Len(count_map) = 3
    /\ \E i, j, k \in DOMAIN count_map :
          /\ i # j
          /\ count_map[i].val = count_map[j].val
          /\ count_map[k].val > count_map[i].val
          /\ Get(rank_map, count_map[k].key) = 0

\* the set of ids whose AST has the program string key
IdsOf(key) == {i \in Range(Keys(store.sources)) : Canonical(Get(store.sources, i)) = key}

RECURSIVE SumOver(_, _)
SumOver(S, f) == IF S = {} THEN 0 ELSE LET x == CHOOSE y \in S : TRUE
                                       IN f[x] + SumOver(S \ {x}, f)

\* C7: the count map returned has exactly the program strings of the ids of
\* sources as its keys, each once, and each key's value is the sum of
\* counts[id] over the ids of that program string, whatever the order in
\* which the ids were visited.
C7_CountMapSums ==
    pc = "rank_map" =>
        /\ Range(Keys(count_map))
              = {Canonical(Get(store.sources, i)) : i \in Range(Keys(store.sources))}
        /\ Cardinality(Range(Keys(count_map))) = Len(count_map)
        /\ \A j \in DOMAIN count_map :
              count_map[j].val = SumOver(IdsOf(count_map[j].key), store.counts)

\* two ids of one program string, visited second id first, are counted as one key
C7_Witness ==
    /\ pc = "rank_map"
    /\ Len(store.sources) = 2
    /\ store.sources[1].key = 2
    /\ store.sources[1].val # store.sources[2].val
    /\ Len(count_map) = 1
    /\ count_map[1].val = store.counts[1] + store.counts[2]

\* the positions of equal count that argsort left in the order of the list
StableArgsort ==
    \A a, b \in DOMAIN argsorted :
        (a < b /\ count_map[argsorted[a]].val = count_map[argsorted[b]].val)
            => argsorted[a] < argsorted[b]

PlaceIn(sorted, i) == CHOOSE a \in DOMAIN sorted : sorted[a] = i

\* C10, as claimed: of two programs of equal count, the one listed earlier in
\* the count array receives the smaller rank.
C10_EarlierListedRanksFirst ==
    RankMapBuilt =>
        \A i, j \in DOMAIN count_map :
            (i < j /\ count_map[i].val = count_map[j].val)
                => Get(rank_map, count_map[i].key) < Get(rank_map, count_map[j].key)

\* C10, amended: of two programs of equal count, the one argsort places later
\* receives the smaller rank; when argsort is stable that is the one listed
\* later, so that programs of equal count are ranked in reverse listing order.
C10_TiesRankedInReverse ==
    RankMapBuilt =>
        /\ \A i, j \in DOMAIN count_map :
              (i # j /\ count_map[i].val = count_map[j].val)
                  => (Get(rank_map, count_map[i].key) < Get(rank_map, count_map[j].key)
                         <=> PlaceIn(argsorted, i) > PlaceIn(argsorted, j))
        /\ StableArgsort =>
              \A i, j \in DOMAIN count_map :
                  (i < j /\ count_map[i].val = count_map[j].val)
                      => Get(rank_map, count_map[j].key) < Get(rank_map, count_map[i].key)

\* two programs of equal count, sorted stably, are ranked: the later listed first
C10_Witness ==
    /\ pc = "zipf_map"
    /\ StableArgsort
    /\ \E i, j \in DOMAIN count_map :
          /\ i < j
          /\ count_map[i].val = count_map[j].val
          /\ Get(rank_map, count_map[j].key) < Get(rank_map, count_map[i].key)

\* the tokens of all the programs, in the order they are read
RECURSIVE TokenStream(_)
TokenStream(data) == IF data = <<>> THEN <<>> ELSE split(Head(data)) \o TokenStream(Tail(data))

Occurrences(t, stream) == Cardinality({j \in DOMAIN stream : stream[j] = t})
FirstSeen(t, stream) == CHOOSE j \in DOMAIN stream : stream[j] = t /\ \A k \in 1..(j - 1) : stream[k] # t

\* what a vocabulary built from data with min_occ is to be
VocabularyContract(v, data, min_occ) ==
    LET stream == TokenStream(data)
        kept == {t \in Range(stream) : Occurrences(t, stream) > min_occ}
    IN /\ \A j \in 1..4 : SpecialTokens[j] \in DOMAIN v.w2i /\ v.w2i[SpecialTokens[j]] = j - 1
       /\ DOMAIN v.w2i = Range(SpecialTokens) \cup kept
       /\ \A t \in kept :
             v.w2i[t] = 4 + Cardinality({u \in kept : FirstSeen(u, stream) < FirstSeen(t, stream)})
       /\ DOMAIN v.i2w = {v.w2i[t] : t \in DOMAIN v.w2i}
       /\ \A t \in DOMAIN v.w2i : v.i2w[v.w2i[t]] = t
       /\ Cardinality(DOMAIN v.w2i) = Cardinality(DOMAIN v.i2w)

\* __init__ has called create_vocab and the call is over
CreateVocabCalled ==
    /\ args.vocab = None
    /\ \/ pc \in {"unpack_vocab", "process_programs", "process_labels", "done"}
       \/ pc = "failed" /\ error.line \in 100..124

\* C5: create_vocab, called on the training programs, produces a vocabulary:
\* PAD, UNK, SOS, EOS at 0..3, a token included exactly when it occurs more
\* than min_occ times, the included tokens at 4, 5, ... in first-seen order,
\* and index->token the inverse of token->index.
C5_CreateVocabProducesVocabulary ==
    (CreateVocabCalled /\ args.split = "train") =>
        /\ error = NoError
        /\ vocab # None
        /\ VocabularyContract(vocab[1], raw_programs, args.min_occ)

\* the storage of an unlabeled split, all present
UnlabeledStorage ==
    /\ store.files = AllFiles
    /\ "programs" \in DOMAIN store.raw_data
    /\ "labels" \notin DOMAIN store.raw_data

\* C6: constructed on the train split with vocab=None over unlabeled data with
\* all its storage present, the dataset builds its vocabulary, holds it, and
\* has its sequences encoded with it; construction does not fail.
C6_TrainConstructionSucceeds ==
    (args.split = "train" /\ args.vocab = None /\ UnlabeledStorage) =>
        /\ pc # "failed"
        /\ pc \in {"process_programs", "process_labels", "done"} =>
              /\ vocab # None
              /\ VocabularyContract(vocab[1], raw_programs, args.min_occ)
              /\ w2i = vocab[1].w2i /\ i2w = vocab[1].i2w
        /\ pc = "done" =>
              \A k \in DOMAIN raw_programs :
                  sequences[k] = EncodeProgram(raw_programs[k], w2i, args.max_seq_len).seq

\* the record of the program at position k (from 1)
RecordAt(k) ==
    [seq |-> sequences[k], length |-> lengths[k], label |-> None,
     zipf |-> zipf_map[raw_programs[k]]]

\* C8, as claimed: every index outside 0 .. size-1 fails with IndexError and
\* returns no record, every index inside returns the record at that position.
C8_BoundsChecked ==
    ret.called =>
        IF ret.index \in 0..(size - 1)
        THEN ret.error = NoError /\ ret.value = Some(RecordAt(ret.index + 1))
        ELSE ret.error.type = "IndexError" /\ ret.value = None

\* C8, amended: every index outside -size .. size-1 fails with IndexError and
\* returns no record; an index inside addresses position index mod size, and
\* the call returns the record of the program there when that program is a
\* key of the Zipf map, and fails with KeyError when it is not.
C8_PythonListIndexing ==
    ret.called =>
        IF ret.index \in (-size)..(size - 1)
        THEN LET k == (ret.index % size) + 1
             IN IF raw_programs[k] \in DOMAIN zipf_map
                THEN ret.error = NoError /\ ret.value = Some(RecordAt(k))
                ELSE ret.error.type = "KeyError" /\ ret.value = None
        ELSE ret.error.type = "IndexError" /\ ret.value = None

\* a negative index has returned the record of a program counted from the end
C8_Witness ==
    /\ pc = "done"
    /\ ret.called
    /\ size = 2
    /\ ret.index = -2
    /\ raw_programs[1] # raw_programs[2]
    /\ raw_programs[1] \in DOMAIN zipf_map
    /\ ret.value = Some(RecordAt(1))

\* C9: constructed with vocab=None on a split other than train, the dataset
\* never has a vocabulary and never gets past the vocabulary build: once the
\* data is loaded and counted, create_vocab's assertion fails before anything
\* is built and the error leaves __init__.
C9_NonTrainingBuildFails ==
    (args.vocab = None /\ args.split # "train") =>
        /\ pc \notin {"unpack_vocab", "process_programs", "process_labels", "done"}
        /\ vocab = None /\ w2i = <<>> /\ i2w = <<>> /\ sequences = <<>>
        /\ (pc = "failed" /\ store.files = AllFiles /\ "programs" \in DOMAIN store.raw_data)
              => /\ error = Exception("AssertionError", 101)
                 /\ DOMAIN zipf_map = Range(Keys(count_map))

\* the vocabulary build has failed on the val split
C9_Witness ==
    /\ args.vocab = None
    /\ args.split = "val"
    /\ pc = "failed"
    /\ error = Exception("AssertionError", 101)
    /\ Len(raw_programs) = 2
    /\ DOMAIN zipf_map # {}

====
